---- MODULE Spec2Model ----
(***************************************************************************)
(* A model of find_my_photos.py: the face-encoding cache, the matcher, the *)
(* photo organizer and the Gradio request handler that chains them.        *)
(*                                                                         *)
(* Strings the program inspects character by character (phone numbers,     *)
(* e-mail addresses, user identifiers, folder names) are sequences of      *)
(* one-character strings.  A file name is a record [stem, ext].  A face    *)
(* embedding is a point <<x, y>> whose coordinates are in tenths, so the   *)
(* tolerance 0.6 of compare_faces is the integer 6.                        *)
(***************************************************************************)
EXTENDS Integers, Sequences, FiniteSets, TLC

VARIABLES
    srcDir,    \* SOURCE_PHOTOS_DIR: [exists, files]
    encFile,   \* ENCODINGS_FILE_PATH: Absent, Corrupt or the two saved arrays
    outBase,   \* OUTPUT_BASE_DIR: [folders, zips]
    call       \* the call that has just returned: [fn, before, args, ret], or Idle

vars == <<srcDir, encFile, outBase, call>>

\* Python's None, and a value that is not None
None == [is_none |-> TRUE]
Some(value) == [is_none |-> FALSE, value |-> value]
IsNone(x) == x.is_none
\* not x, for x None or a list
Falsy(x) == x.is_none \/ x.value = <<>>

----------------------------------------------------------------------------
(* Characters and strings *)

Digits == {"0", "1", "2", "3", "4", "5", "6", "7", "8", "9"}
LowerLetters == {"a", "b", "c", "d", "e", "f", "g", "h", "i", "j", "k", "l", "m",
                 "n", "o", "p", "q", "r", "s", "t", "u", "v", "w", "x", "y", "z"}
UpperLetters == {"A", "B", "C", "D", "E", "F", "G", "H", "I", "J", "K", "L", "M",
                 "N", "O", "P", "Q", "R", "S", "T", "U", "V", "W", "X", "Y", "Z"}
Letters == LowerLetters \cup UpperLetters
Alnum == Letters \cup Digits
\* \w of the re module: alphanumerics and the underscore
WordChars == Alnum \cup {"_"}
\* \s of the re module, and what str.strip() removes
SpaceChars == {" ", "\t", "\n"}

RECURSIVE FilterSeq(_, _)
\* re.sub(pattern, '', s) for a pattern that matches single characters: the
\* characters of s that are in keep, in order
FilterSeq(s, keep) ==
    IF s = <<>> THEN <<>>
    ELSE IF Head(s) \in keep THEN <<Head(s)>> \o FilterSeq(Tail(s), keep)
    ELSE FilterSeq(Tail(s), keep)

RECURSIVE LStrip(_)
LStrip(s) == IF s # <<>> /\ Head(s) \in SpaceChars THEN LStrip(Tail(s)) ELSE s

RECURSIVE RStrip(_)
RStrip(s) ==
    IF s # <<>> /\ s[Len(s)] \in SpaceChars THEN RStrip(SubSeq(s, 1, Len(s) - 1)) ELSE s

\* str.strip()
Strip(s) == RStrip(LStrip(s))

RECURSIVE CollapseRuns(_, _)
\* re.sub(r'[-\s]+', '-', s): inRun says that the previous character was part
\* of a run that has already produced its hyphen
CollapseRuns(s, inRun) ==
    IF s = <<>> THEN <<>>
    ELSE IF Head(s) \in SpaceChars \cup {"-"}
         THEN (IF inRun THEN <<>> ELSE <<"-">>) \o CollapseRuns(Tail(s), TRUE)
         ELSE <<Head(s)>> \o CollapseRuns(Tail(s), FALSE)

UNKNOWN_FACE_DIR_NAME == <<"u", "n", "k", "n", "o", "w", "n", "_", "u", "s", "e", "r">>

\* A plausible slip: the first substitution written with [^a-zA-Z0-9\s-]
sanitize_foldername_alnum(name) ==
    LET kept == Strip(FilterSeq(name, Alnum \cup SpaceChars \cup {"-"}))
        collapsed == CollapseRuns(kept, FALSE)
    IN  IF collapsed # <<>> THEN collapsed ELSE UNKNOWN_FACE_DIR_NAME

sanitize_foldername(name) ==
    LET kept == Strip(FilterSeq(name, WordChars \cup SpaceChars \cup {"-"}))
        collapsed == CollapseRuns(kept, FALSE)
    IN  IF collapsed # <<>> THEN collapsed ELSE UNKNOWN_FACE_DIR_NAME

\* validate_phone_number: phone.isdigit() and len(phone) == 10
validate_phone_number(phone) ==
    /\ phone # <<>>
    /\ \A i \in 1..Len(phone) : phone[i] \in Digits
    /\ Len(phone) = 10

EmailLocalChars == Alnum \cup {".", "_", "%", "+", "-"}
EmailDomainChars == Alnum \cup {".", "-"}

\* re.match(r'^[a-zA-Z0-9._%+-]+@[a-zA-Z0-9.-]+\.[a-zA-Z]{2,}$', email):
\* at is the position of the "@", dot the position of the last literal dot;
\* "$" also matches just before one trailing newline
EmailRegexMatches(email) ==
    \E body \in {email} \cup (IF email # <<>> /\ email[Len(email)] = "\n"
                               THEN {SubSeq(email, 1, Len(email) - 1)} ELSE {}) :
      \E at \in 1..Len(body) : \E dot \in 1..Len(body) :
        /\ 1 < at /\ at + 1 < dot /\ dot + 2 <= Len(body)
        /\ body[at] = "@" /\ body[dot] = "."
        /\ \A i \in 1..(at - 1) : body[i] \in EmailLocalChars
        /\ \A i \in (at + 1)..(dot - 1) : body[i] \in EmailDomainChars
        /\ \A i \in (dot + 1)..Len(body) : body[i] \in Letters

\* validate_email_address: email and re.match(...)
validate_email_address(email) == email # <<>> /\ EmailRegexMatches(email)

----------------------------------------------------------------------------
(* The gallery: file names, and what face_recognition finds in each file *)

FileName(stem, ext) == [stem |-> stem, ext |-> ext]

PhotoA == FileName("a", "jpg")
PhotoB == FileName("b", "jpg")
PhotoC == FileName("c", "jpg")
PhotoD == FileName("d", "PNG")
PhotoE == FileName("e", "bmp")
Notes  == FileName("notes", "txt")

\* every directory entry the model knows, in the order os.listdir may report
GalleryOrder == <<PhotoA, PhotoB, PhotoC, PhotoD, PhotoE, Notes>>
Gallery == {GalleryOrder[i] : i \in 1..Len(GalleryOrder)}

\* embeddings; coordinates are tenths
FaceX  == <<0, 0>>
FaceX6 == <<6, 0>>      \* at distance exactly 0.6 of FaceX
FaceX5 == <<3, 5>>      \* at distance sqrt(0.34) of FaceX and of FaceX6
FaceY  == <<20, 0>>
FaceZ  == <<0, 20>>     \* nobody of the gallery
FaceQ  == <<-1, 0>>     \* within 0.6 of FaceX, farther than 0.6 from FaceX6 and FaceX5
FaceR  == <<12, 0>>     \* at distance exactly 0.6 of FaceX6, far from all the others

Undecodable == "undecodable"

\* face_recognition.face_encodings(face_recognition.load_image_file(path)):
\* the embeddings of every face of the picture, or Undecodable when
\* load_image_file raises
DetectFaces(f) ==
    CASE f = PhotoA -> <<FaceX>>
      [] f = PhotoB -> <<FaceY>>
      [] f = PhotoC -> <<>>
      [] f = PhotoD -> <<FaceX6, FaceX5>>
      [] OTHER      -> Undecodable

\* str.lower() on the extensions of the gallery
Lower(ext) ==
    CASE ext = "PNG" -> "png"
      [] ext = "JPG" -> "jpg"
      [] OTHER       -> ext

IMAGE_EXTENSIONS == {"png", "jpg", "jpeg", "bmp", "tiff"}

\* filename.lower().endswith(('.png', '.jpg', '.jpeg', '.bmp', '.tiff'))
IsImageName(f) == Lower(f.ext) \in IMAGE_EXTENSIONS

RECURSIVE SelectFrom(_, _)
SelectFrom(order, files) ==
    IF order = <<>> THEN <<>>
    ELSE IF Head(order) \in files THEN <<Head(order)>> \o SelectFrom(Tail(order), files)
    ELSE SelectFrom(Tail(order), files)

RECURSIVE Reverse(_)
Reverse(s) == IF s = <<>> THEN <<>> ELSE Reverse(Tail(s)) \o <<Head(s)>>

\* os.listdir(dir): the entries in an order the file system chooses; the model
\* lets it choose between one order and its reverse
ListDir(files, reversed) ==
    SelectFrom(IF reversed THEN Reverse(GalleryOrder) ELSE GalleryOrder, files)

\* os.path.join(source_image_dir, fname) and os.path.basename(path)
PathJoin(dir, fname) == [dir |-> dir, name |-> fname]
Basename(path) == path.name

SOURCE_PHOTOS_DIR == "all_photos"
OUTPUT_BASE_DIR == "sorted_user_photos"

----------------------------------------------------------------------------
(* The encodings file: numpy arrays, savez_compressed and load *)

RECURSIVE Product(_)
Product(shape) == IF shape = <<>> THEN 1 ELSE Head(shape) * Product(Tail(shape))

\* np.array(list): a list of n vectors of length d becomes an array of shape
\* (n, d), a list of n strings one of shape (n,), the empty list one of
\* shape (0,)
NpArrayOfVectors(list) ==
    IF list = <<>> THEN [shape |-> <<0>>, rows |-> <<>>]
    ELSE [shape |-> <<Len(list), Len(list[1])>>, rows |-> list]

NpArrayOfStrings(list) == [shape |-> <<Len(list)>>, rows |-> list]

\* ndarray.size
NpSize(array) == Product(array.shape)

\* list(array): the rows along the first axis
NpList(array) == array.rows

\* the file is not there; the file is there and np.load or the lookup of its
\* two entries raises
Absent == [kind |-> "absent"]
Corrupt == [kind |-> "corrupt"]

\* np.savez_compressed(path, encodings=..., filenames=...)
SavezCompressed(encodings, filenames) ==
    [kind |-> "npz",
     encodings |-> NpArrayOfVectors(encodings),
     filenames |-> NpArrayOfStrings(filenames)]

RECURSIVE EncodeLoop(_, _)

\* A plausible slip: the file name appended once per file, not once per face
EncodeLoopNamePerFile(listing, acc) ==
    IF listing = <<>> THEN acc
    ELSE LET filename == Head(listing)
             faces == DetectFaces(filename)
         IN  IF ~IsImageName(filename) THEN EncodeLoop(Tail(listing), acc)
             ELSE IF faces = Undecodable
                  THEN EncodeLoop(Tail(listing),
                                  [acc EXCEPT !.skipped_files = @ + 1])
                  ELSE EncodeLoop(Tail(listing),
                                  [acc EXCEPT
                                     !.known_encodings = @ \o faces,
                                     !.known_filenames = Append(@, filename),
                                     !.files_processed = @ + 1])

\* A plausible slip: a picture without a face counted as skipped
EncodeLoopNoFaceSkipped(listing, acc) ==
    IF listing = <<>> THEN acc
    ELSE LET filename == Head(listing)
             faces == DetectFaces(filename)
         IN  IF ~IsImageName(filename) THEN EncodeLoop(Tail(listing), acc)
             ELSE IF faces = Undecodable \/ faces = <<>>
                  THEN EncodeLoop(Tail(listing),
                                  [acc EXCEPT !.skipped_files = @ + 1])
                  ELSE EncodeLoop(Tail(listing),
                                  [acc EXCEPT
                                     !.known_encodings = @ \o faces,
                                     !.known_filenames =
                                        @ \o [i \in 1..Len(faces) |-> filename],
                                     !.files_processed = @ + 1])

\* the loop of generate_and_save_known_encodings over os.listdir(source_dir);
\* acc carries known_encodings, known_filenames, files_processed, skipped_files
EncodeLoop(listing, acc) ==
    IF listing = <<>> THEN acc
    ELSE LET filename == Head(listing)
             faces == DetectFaces(filename)
         IN  IF ~IsImageName(filename) THEN EncodeLoop(Tail(listing), acc)
             ELSE IF faces = Undecodable
                  THEN EncodeLoop(Tail(listing),
                                  [acc EXCEPT !.skipped_files = @ + 1])
                  ELSE EncodeLoop(Tail(listing),
                                  [acc EXCEPT
                                     !.known_encodings = @ \o faces,
                                     !.known_filenames =
                                        @ \o [i \in 1..Len(faces) |-> filename],
                                     !.files_processed = @ + 1])

EncodeStart ==
    [known_encodings |-> <<>>, known_filenames |-> <<>>,
     files_processed |-> 0, skipped_files |-> 0]

\* generate_and_save_known_encodings(source_dir, encodings_file_path): what it
\* returns (encodings, filenames, msg) and what it leaves in the file
generate_and_save_known_encodings(listing) ==
    LET acc == EncodeLoop(listing, EncodeStart)
    IN  IF acc.known_encodings # <<>>
        THEN [encodings |-> acc.known_encodings,
              filenames |-> acc.known_filenames,
              msg |-> [text |-> "Encoding Generation Complete",
                       encodings |-> Len(acc.known_encodings),
                       images |-> acc.files_processed,
                       skipped |-> acc.skipped_files],
              file |-> SavezCompressed(acc.known_encodings, acc.known_filenames)]
        ELSE [encodings |-> <<>>,
              filenames |-> <<>>,
              msg |-> [text |-> "No encodings were generated"],
              file |-> SavezCompressed(<<>>, <<>>)]

\* load_known_encodings(encodings_file_path): (encodings, filenames, msg);
\* FileNotFoundError and every other exception give (None, None, msg)
load_known_encodings(file) ==
    IF file = Absent
    THEN [encodings |-> None, filenames |-> None, msg |-> "not found"]
    ELSE IF file = Corrupt
    THEN [encodings |-> None, filenames |-> None, msg |-> "Error loading encodings"]
    ELSE IF NpSize(file.encodings) = 0 /\ NpSize(file.filenames) = 0
    THEN [encodings |-> Some(<<>>), filenames |-> Some(<<>>), msg |-> "is empty"]
    ELSE [encodings |-> Some(IF NpSize(file.encodings) > 0
                             THEN NpList(file.encodings) ELSE <<>>),
          filenames |-> Some(IF NpSize(file.filenames) > 0
                             THEN NpList(file.filenames) ELSE <<>>),
          msg |-> "Successfully loaded"]

----------------------------------------------------------------------------
(* The matcher *)

TOLERANCE == 6

RECURSIVE SqDistance(_, _)
SqDistance(u, v) ==
    IF u = <<>> THEN 0
    ELSE (Head(u) - Head(v)) * (Head(u) - Head(v)) + SqDistance(Tail(u), Tail(v))

\* A plausible slip: the comparison strict
compare_faces_strict(known, face, tolerance) ==
    [i \in 1..Len(known) |-> SqDistance(known[i], face) < tolerance * tolerance]

\* face_recognition.compare_faces(known, face, tolerance): for each known
\* embedding, whether its Euclidean distance to face is <= tolerance
compare_faces(known, face, tolerance) ==
    [i \in 1..Len(known) |-> SqDistance(known[i], face) <= tolerance * tolerance]

RECURSIVE MatchLoop(_, _, _, _)
\* the loop of find_matching_photos over enumerate(matches_array)
MatchLoop(matches_array, filenames, i, acc) ==
    IF i > Len(matches_array) THEN acc
    ELSE MatchLoop(matches_array, filenames, i + 1,
                   IF matches_array[i] THEN acc \cup {filenames[i]} ELSE acc)

\* the sequences that list every element of set exactly once
Orderings(set) ==
    {s \in [1..Cardinality(set) -> set] : \A i, j \in DOMAIN s : s[i] = s[j] => i = j}

\* find_matching_photos: the set matched_photo_filenames it collects ...
MatchedFilenames(selfie_encoding, all_known_encodings, all_known_filenames) ==
    IF IsNone(selfie_encoding) \/ Falsy(all_known_encodings)
    THEN {}
    ELSE MatchLoop(compare_faces(all_known_encodings.value, selfie_encoding.value,
                                 TOLERANCE),
                   all_known_filenames.value, 1, {})

\* ... and the lists it can return: the paths of that set, in the order the
\* iteration over the set happens to take
find_matching_photos(selfie_encoding, all_known_encodings, all_known_filenames, source_image_dir) ==
    LET names == MatchedFilenames(selfie_encoding, all_known_encodings,
                                  all_known_filenames)
    IN  {[i \in DOMAIN s |-> PathJoin(source_image_dir, s[i])] : s \in Orderings(names)}

----------------------------------------------------------------------------
(* The photo organizer *)

NoFolders == [n \in {} |-> {}]

\* shutil.rmtree(dir)
RmTree(folders, name) == [n \in DOMAIN folders \ {name} |-> folders[n]]

\* os.makedirs(dir, exist_ok=True)
MakeDirs(folders, name) ==
    [n \in DOMAIN folders \cup {name} |-> IF n \in DOMAIN folders THEN folders[n] ELSE {}]

\* shutil.copy(photo_path, destination_path) raises when the source file is
\* not there (any more); otherwise the destination folder holds the file
CopySucceeds(src, photo_path) ==
    /\ photo_path.dir = SOURCE_PHOTOS_DIR
    /\ src.exists
    /\ Basename(photo_path) \in src.files

RECURSIVE CopyLoop(_, _, _, _)

\* A plausible slip: the path listed before the copy is tried
CopyLoopListsFailures(src, matched_photos, user_specific_dir, acc) ==
    IF matched_photos = <<>> THEN acc
    ELSE LET photo_path == Head(matched_photos)
             filename == Basename(photo_path)
         IN  CopyLoop(src, Tail(matched_photos), user_specific_dir,
                      [files |-> IF CopySucceeds(src, photo_path)
                                 THEN acc.files \cup {filename} ELSE acc.files,
                       copied_files_paths |->
                          Append(acc.copied_files_paths,
                                 PathJoin(user_specific_dir, filename))])

\* the loop of create_user_folder_and_copy_photos over matched_photos; acc
\* carries the folder's files and copied_files_paths
CopyLoop(src, matched_photos, user_specific_dir, acc) ==
    IF matched_photos = <<>> THEN acc
    ELSE LET photo_path == Head(matched_photos)
             filename == Basename(photo_path)
         IN  CopyLoop(src, Tail(matched_photos), user_specific_dir,
                      IF CopySucceeds(src, photo_path)
                      THEN [files |-> acc.files \cup {filename},
                            copied_files_paths |->
                               Append(acc.copied_files_paths,
                                      PathJoin(user_specific_dir, filename))]
                      ELSE acc)

\* A plausible slip: the old folder of the user is kept (no shutil.rmtree)
ClearedFoldersKeepOld(folders, user_folder_name) == MakeDirs(folders, user_folder_name)

\* lines 154-156: the user's folder removed if it exists, then created
ClearedFolders(folders, user_folder_name) ==
    MakeDirs(IF user_folder_name \in DOMAIN folders
             THEN RmTree(folders, user_folder_name) ELSE folders,
             user_folder_name)

\* create_user_folder_and_copy_photos(user_identifier, matched_photos,
\* base_output_dir): (msg, user_specific_dir, copied_files_paths) and the
\* folders of the output directory afterwards
create_user_folder_and_copy_photos(folders, src, user_identifier, matched_photos) ==
    LET user_folder_name == sanitize_foldername(user_identifier)
        user_specific_dir == PathJoin(OUTPUT_BASE_DIR, user_folder_name)
        cleared == ClearedFolders(folders, user_folder_name)
        done == CopyLoop(src, matched_photos, user_specific_dir,
                         [files |-> cleared[user_folder_name],
                          copied_files_paths |-> <<>>])
    IN  [msg |-> IF Len(done.copied_files_paths) > 0
                 THEN [text |-> "Successfully copied",
                       count |-> Len(done.copied_files_paths)]
                 ELSE [text |-> "No photos were copied"],
         user_specific_dir |-> user_specific_dir,
         copied_files_paths |-> done.copied_files_paths,
         folders |-> [cleared EXCEPT ![user_folder_name] = done.files]]

----------------------------------------------------------------------------
(* The request handler *)

Line(text) == [text |-> text]

HasLine(status, text) == \E i \in 1..Len(status) : status[i].text = text

\* load_and_encode_face(image_input, is_path=False): the embedding of the
\* first face, or None when there is no face or the image cannot be read
load_and_encode_face(image_input) ==
    IF ~image_input.given \/ ~image_input.readable THEN None
    ELSE IF image_input.faces # <<>> THEN Some(image_input.faces[1])
    ELSE None

\* A plausible slip: an empty loaded store taken for a missing one
\* (not known_encodings instead of known_encodings is None)
MustGenerateWhenEmpty(force_rescan_encodings, known_encodings) ==
    force_rescan_encodings \/ Falsy(known_encodings)

\* line 211: force_rescan_encodings or known_encodings is None
MustGenerate(force_rescan_encodings, known_encodings) ==
    force_rescan_encodings \/ IsNone(known_encodings)

\* line 213: not os.path.exists(SOURCE_PHOTOS_DIR) or not os.listdir(SOURCE_PHOTOS_DIR)
SourceUnavailable(src) == ~src.exists \/ src.files = {}

\* A plausible slip: the empty store written whenever the source is unavailable
FileAfterSourceUnavailableAlways(file, known_encodings) == SavezCompressed(<<>>, <<>>)

\* lines 216-217: an empty store is written only if the load failed and no
\* file is there
FileAfterSourceUnavailable(file, known_encodings) ==
    IF IsNone(known_encodings) /\ file = Absent
    THEN SavezCompressed(<<>>, <<>>)
    ELSE file

\* A plausible slip: the missing selfie is not checked
InputErrorNoSelfieCheck(phone_number, email_address, selfie_pil_image) ==
    IF ~validate_phone_number(phone_number)
    THEN Some("Invalid phone number. Must be exactly 10 digits.")
    ELSE IF ~validate_email_address(email_address)
    THEN Some("Invalid email format (e.g., user@example.com).")
    ELSE None

\* lines 194-203: the message of the first failing validation, or None
InputError(phone_number, email_address, selfie_pil_image) ==
    IF ~validate_phone_number(phone_number)
    THEN Some("Invalid phone number. Must be exactly 10 digits.")
    ELSE IF ~validate_email_address(email_address)
    THEN Some("Invalid email format (e.g., user@example.com).")
    ELSE IF ~selfie_pil_image.given
    THEN Some("ERROR: Please upload or capture a selfie.")
    ELSE None

\* A plausible slip: the archive made whenever photos matched
MustZipWhenMatched(matched_photo_paths, copied_files_local_paths, folder_files) ==
    matched_photo_paths # <<>>

\* lines 266 and 270: there are copied files, and the user's folder is not empty
MustZip(matched_photo_paths, copied_files_local_paths, folder_files) ==
    copied_files_local_paths # <<>> /\ folder_files # {}

\* line 268: matched_photos_<sanitized_phone>_<uuid4().hex[:6]>.zip
ZipName(sanitized_phone, uuid) == <<sanitized_phone, uuid>>

\* lines 207-222: the encodings of this request, the file afterwards, the
\* status lines added, and whether the request stops here
ResolveEncodings(file, src, force_rescan_encodings, reversed) ==
    LET got == load_known_encodings(file)
        lines == <<[text |-> "Encoding Status", msg |-> got.msg]>>
    IN  IF ~MustGenerate(force_rescan_encodings, got.encodings)
        THEN [known_encodings |-> got.encodings, known_filenames |-> got.filenames,
              file |-> file, status |-> lines, stop |-> FALSE]
        ELSE IF SourceUnavailable(src)
        THEN [known_encodings |-> Some(<<>>), known_filenames |-> Some(<<>>),
              file |-> FileAfterSourceUnavailable(file, got.encodings),
              status |-> lines \o <<Line("Attempting to generate new encodings"),
                                    Line("ERROR: Source photo directory is empty or does not exist")>>,
              stop |-> TRUE]
        ELSE LET gen == generate_and_save_known_encodings(ListDir(src.files, reversed))
             IN  [known_encodings |-> Some(gen.encodings),
                  known_filenames |-> Some(gen.filenames),
                  file |-> gen.file,
                  status |-> lines \o <<Line("Attempting to generate new encodings"),
                                        [text |-> "Encoding Generation", msg |-> gen.msg]>>,
                  stop |-> FALSE]

\* lines 255-280: the folder, the preview list, the archive
Organize(out, src, phone_number, matched_photo_paths, uuid, zip_fails) ==
    LET sanitized_phone == sanitize_foldername(phone_number)
        made == create_user_folder_and_copy_photos(out.folders, src, sanitized_phone,
                                                   matched_photo_paths)
        folder_files == made.folders[made.user_specific_dir.name]
        copyLine == <<[text |-> "File Copy", msg |-> made.msg]>>
    IN  IF ~MustZip(matched_photo_paths, made.copied_files_paths, folder_files)
        THEN [status |-> copyLine \o
                         <<IF made.copied_files_paths = <<>>
                           THEN Line("Download: No copied files to zip.")
                           ELSE Line("Download: No files were available in the user directory to zip.")>>,
              gallery |-> made.copied_files_paths, zip |-> None,
              out |-> [out EXCEPT !.folders = made.folders]]
        ELSE IF zip_fails
        THEN [status |-> copyLine \o <<Line("Download Error: Could not create ZIP file")>>,
              gallery |-> made.copied_files_paths, zip |-> None,
              out |-> [out EXCEPT !.folders = made.folders]]
        ELSE [status |-> copyLine \o <<Line("Download: Matched photos zipped for download.")>>,
              gallery |-> made.copied_files_paths,
              zip |-> Some(ZipName(sanitized_phone, uuid)),
              out |-> [folders |-> made.folders,
                       zips |-> out.zips \cup {ZipName(sanitized_phone, uuid)}]]


\* the archive names uuid4().hex[:6] gives
Uuids == {"3fa9c1"}

\* the selfies a request may carry: none, one that cannot be read, one
\* without a face, one of the person of a.jpg, and one with two faces of
\* which the first is nobody of the gallery the requests see
Selfie(faces) == [given |-> TRUE, readable |-> TRUE, faces |-> faces]
NoSelfie == [given |-> FALSE, readable |-> FALSE, faces |-> <<>>]
BrokenSelfie == [given |-> TRUE, readable |-> FALSE, faces |-> <<>>]
Selfies == {NoSelfie, BrokenSelfie, Selfie(<<>>), Selfie(<<FaceX>>),
            Selfie(<<FaceY, FaceX>>)}

Phone1 == <<"5", "5", "5", "1", "2", "3", "4", "5", "6", "7">>
Phone2 == <<"1", "2", "3", "4", "5", "6", "7", "8", "9", "0">>
Phones == {Phone1, Phone2, <<"1", "2", "3", "4", "5">>, <<"1", "2", "3", "4", "5", "6", "7", "8", "9", "0", "1">>, <<"5", "5", "5", "1", "2", "3", "4", "5", "a", "b">>}

GoodEmail == <<"u", "s", "e", "r", "@", "e", "x", "a", "m", "p", "l", "e", ".", "c", "o", "m">>
Emails == {GoodEmail, <<"u", "s", "e", "r", "@", ".", "c", "o", "m">>, <<"u", "s", "e", "r", "e", "x", "a", "m", "p", "l", "e", ".", "c", "o", "m">>, <<>>}

Idle == [fn |-> "none"]

\* process_request_gradio(phone_number, email_address, selfie_pil_image,
\* force_rescan_encodings): the three values it returns and the files it
\* leaves, for each choice the file system and the libraries make on the way
\* (the order of os.listdir, the order of the matched set, the archive name,
\* whether make_archive raises)
RequestOutcomes(file, out, src, phone_number, email_address, selfie_pil_image, force_rescan_encodings) ==
    LET error == InputError(phone_number, email_address, selfie_pil_image)
        validated == <<Line("Process started..."),
                       [text |-> "Inputs Validated", phone |-> phone_number,
                        email |-> email_address]>>
        Outcome(status, gallery_output, zip_file_output, f, o) ==
            [status |-> status, gallery |-> gallery_output, zip |-> zip_file_output,
             file |-> f, out |-> o]
        AfterResolve(enc) ==
            LET status2 == validated \o enc.status
                             \o (IF Falsy(enc.known_encodings) /\ ~enc.stop
                                 THEN <<Line("Warning: No face encodings available")>>
                                 ELSE <<>>)
                selfie_encoding == load_and_encode_face(selfie_pil_image)
                status3 == status2 \o <<Line("Processing selfie...")>>
                status4 == status3 \o <<Line("Selfie processed successfully."),
                             IF Falsy(enc.known_encodings)
                             THEN Line("No known face encodings to compare against.")
                             ELSE Line("Searching for your photos using stored encodings...")>>
                AfterMatch(matched_photo_paths) ==
                    IF matched_photo_paths = <<>>
                    THEN {Outcome(status4 \o <<Line("No matching photos found")>>,
                                  Some(<<>>), None, enc.file, out)}
                    ELSE {LET org == Organize(out, src, phone_number,
                                              matched_photo_paths, uuid, zip_fails)
                          IN  Outcome(status4
                                        \o <<[text |-> "Match Found",
                                              count |-> Len(matched_photo_paths)]>>
                                        \o org.status,
                                      Some(org.gallery), org.zip, enc.file, org.out)
                          : uuid \in Uuids, zip_fails \in BOOLEAN}
            IN  IF enc.stop
                THEN {Outcome(status2, None, None, enc.file, out)}
                ELSE IF IsNone(selfie_encoding)
                THEN {Outcome(status3 \o <<Line("ERROR: Could not process the selfie")>>,
                              None, None, enc.file, out)}
                ELSE UNION {AfterMatch(m) :
                            m \in IF Falsy(enc.known_encodings) THEN {<<>>}
                                  ELSE find_matching_photos(selfie_encoding,
                                                            enc.known_encodings,
                                                            enc.known_filenames,
                                                            SOURCE_PHOTOS_DIR)}
    IN  IF ~IsNone(error)
        THEN {Outcome(<<Line(error.value)>>, None, None, file, out)}
        ELSE UNION {AfterResolve(ResolveEncodings(file, src, force_rescan_encodings,
                                                  reversed)) : reversed \in BOOLEAN}

process_request_gradio(phone_number, email_address, selfie_pil_image, force_rescan_encodings) ==
    /\ call = Idle
    /\ \E o \in RequestOutcomes(encFile, outBase, srcDir, phone_number, email_address,
                                selfie_pil_image, force_rescan_encodings) :
         /\ encFile' = o.file
         /\ outBase' = o.out
         /\ call' = [fn |-> "process_request_gradio",
                     before |-> [file |-> encFile, out |-> outBase],
                     args |-> [phone_number |-> phone_number,
                               email_address |-> email_address,
                               selfie_pil_image |-> selfie_pil_image,
                               force_rescan_encodings |-> force_rescan_encodings],
                     ret |-> [status |-> o.status, gallery |-> o.gallery, zip |-> o.zip]]
    /\ UNCHANGED srcDir

\* the result is with the caller, and the program waits for the next call
Resume ==
    /\ call # Idle
    /\ call' = Idle
    /\ UNCHANGED <<srcDir, encFile, outBase>>

----------------------------------------------------------------------------
(* What happens around the program: the gallery and the encodings file *)

AddPhoto(f) ==
    /\ call = Idle
    /\ srcDir.exists
    /\ f \notin srcDir.files
    /\ srcDir' = [srcDir EXCEPT !.files = @ \cup {f}]
    /\ UNCHANGED <<encFile, outBase, call>>

RemovePhoto(f) ==
    /\ call = Idle
    /\ f \in srcDir.files
    /\ srcDir' = [srcDir EXCEPT !.files = @ \ {f}]
    /\ UNCHANGED <<encFile, outBase, call>>

RemoveSourceDir ==
    /\ call = Idle
    /\ srcDir.exists
    /\ srcDir' = [exists |-> FALSE, files |-> {}]
    /\ UNCHANGED <<encFile, outBase, call>>

\* lines 22-24 at the next start of the program: os.makedirs(..., exist_ok=True)
Restart ==
    /\ call = Idle
    /\ ~srcDir.exists
    /\ srcDir' = [exists |-> TRUE, files |-> {}]
    /\ UNCHANGED <<encFile, outBase, call>>

DeleteEncodingsFile ==
    /\ call = Idle
    /\ encFile # Absent
    /\ encFile' = Absent
    /\ UNCHANGED <<srcDir, outBase, call>>

DamageEncodingsFile ==
    /\ call = Idle
    /\ encFile \notin {Absent, Corrupt}
    /\ encFile' = Corrupt
    /\ UNCHANGED <<srcDir, outBase, call>>

\* the entries that come and go in the gallery while requests are served
RequestGallery == {PhotoA, PhotoD, Notes}

\* the program has just been started for the first time (lines 22-24)
Init ==
    /\ srcDir = [exists |-> TRUE, files |-> {}]
    /\ encFile = Absent
    /\ outBase = [folders |-> NoFolders, zips |-> {}]
    /\ call = Idle

\* the requests: an input the handler does not get to read is left blank
Blank(phone_number, email_address) ==
    [phone_number |-> phone_number, email_address |-> email_address,
     selfie_pil_image |-> NoSelfie, force_rescan_encodings |-> FALSE]

Requests ==
    {Blank(p, <<>>) : p \in {q \in Phones : ~validate_phone_number(q)}}
      \cup {Blank(p, e) : p \in {q \in Phones : validate_phone_number(q)}, e \in Emails}
      \cup [phone_number : {q \in Phones : validate_phone_number(q)},
            email_address : {e \in Emails : validate_email_address(e)},
            selfie_pil_image : Selfies \ {NoSelfie},
            force_rescan_encodings : BOOLEAN]

Request ==
    \E r \in Requests :
      process_request_gradio(r.phone_number, r.email_address, r.selfie_pil_image,
                             r.force_rescan_encodings)

Next ==
    \/ Request
    \/ Resume
    \/ \E f \in RequestGallery : AddPhoto(f)
    \/ \E f \in RequestGallery : RemovePhoto(f)
    \/ RemoveSourceDir
    \/ Restart
    \/ DeleteEncodingsFile
    \/ DamageEncodingsFile

Spec == Init /\ [][Next]_vars

----------------------------------------------------------------------------
(* The encoding store and the matcher, called directly *)

Queries == {None, Some(FaceX), Some(FaceY), Some(FaceZ), Some(FaceQ), Some(FaceR)}

Build(reversed) ==
    /\ call = Idle
    /\ srcDir.exists
    /\ LET listing == ListDir(srcDir.files, reversed)
           gen == generate_and_save_known_encodings(listing)
       IN  /\ encFile' = gen.file
           /\ call' = [fn |-> "generate_and_save_known_encodings",
                       before |-> [file |-> encFile, out |-> outBase],
                       args |-> [listing |-> listing],
                       ret |-> [encodings |-> gen.encodings,
                                filenames |-> gen.filenames,
                                msg |-> gen.msg]]
    /\ UNCHANGED <<srcDir, outBase>>

Load ==
    /\ call = Idle
    /\ call' = [fn |-> "load_known_encodings",
                before |-> [file |-> encFile, out |-> outBase],
                args |-> [file |-> encFile],
                ret |-> load_known_encodings(encFile)]
    /\ UNCHANGED <<srcDir, encFile, outBase>>

\* find_matching_photos on what load_known_encodings gives, as the handler calls it
Match(selfie_encoding) ==
    /\ call = Idle
    /\ LET store == load_known_encodings(encFile)
       IN  \E paths \in find_matching_photos(selfie_encoding, store.encodings,
                                             store.filenames, SOURCE_PHOTOS_DIR) :
             call' = [fn |-> "find_matching_photos",
                      before |-> [file |-> encFile, out |-> outBase],
                      args |-> [selfie_encoding |-> selfie_encoding,
                                all_known_encodings |-> store.encodings,
                                all_known_filenames |-> store.filenames],
                      ret |-> paths]
    /\ UNCHANGED <<srcDir, encFile, outBase>>

NextStore ==
    \/ \E f \in Gallery : AddPhoto(f)
    \/ \E f \in Gallery : RemovePhoto(f)
    \/ \E reversed \in BOOLEAN : Build(reversed)
    \/ Load
    \/ \E selfie_encoding \in Queries : Match(selfie_encoding)
    \/ Resume

SpecStore == Init /\ [][NextStore]_vars

----------------------------------------------------------------------------
(* The photo organizer, called directly *)

UserIdentifiers == {<<"J", "o", "h", "n", " ", "D", "o", "e">>, <<"J", "o", "h", "n", "-", "D", "o", "e", "!">>, <<"!", "!", "!">>, Phone1}

OrganizerPhotos == {PhotoA, PhotoB, PhotoD}

\* the lists of matched paths: every subset of the photos in every order
MatchedLists ==
    UNION {{[i \in DOMAIN s |-> PathJoin(SOURCE_PHOTOS_DIR, s[i])] : s \in Orderings(names)}
           : names \in SUBSET OrganizerPhotos}

OrganizePhotos(user_identifier, matched_photos) ==
    /\ call = Idle
    /\ LET made == create_user_folder_and_copy_photos(outBase.folders, srcDir,
                                                      user_identifier, matched_photos)
       IN  /\ outBase' = [outBase EXCEPT !.folders = made.folders]
           /\ call' = [fn |-> "create_user_folder_and_copy_photos",
                       before |-> [file |-> encFile, out |-> outBase],
                       args |-> [user_identifier |-> user_identifier,
                                 matched_photos |-> matched_photos],
                       ret |-> [msg |-> made.msg,
                                user_specific_dir |-> made.user_specific_dir,
                                copied_files_paths |-> made.copied_files_paths]]
    /\ UNCHANGED <<srcDir, encFile>>

\* the gallery holds some of the photos and does not change
InitOrganizer ==
    /\ srcDir \in {[exists |-> TRUE, files |-> fs] : fs \in SUBSET OrganizerPhotos}
    /\ encFile = Absent
    /\ outBase = [folders |-> NoFolders, zips |-> {}]
    /\ call = Idle

NextOrganizer ==
    \/ \E user_identifier \in UserIdentifiers : \E matched_photos \in MatchedLists :
         OrganizePhotos(user_identifier, matched_photos)
    \/ Resume

SpecOrganizer == InitOrganizer /\ [][NextOrganizer]_vars

----------------------------------------------------------------------------
(* sanitize_foldername, called directly *)

SanitizeChars == {"a", "5", "_", " ", "-", "!"}

MaxNameLen == 3

Names == UNION {[1..n -> SanitizeChars] : n \in 0..MaxNameLen}

SpecExamples == {<<"5", "5", "5", "-", "1", "2", "3", "-", "4", "5", "6", "7">>, <<" ", " ", "J", "o", "h", "n", " ", "D", "o", "e", "!", "!", " ">>, <<"!", "!", "!">>}

Sanitize(name) ==
    /\ call = Idle
    /\ call' = [fn |-> "sanitize_foldername",
                before |-> [file |-> encFile, out |-> outBase],
                args |-> [name |-> name],
                ret |-> sanitize_foldername(name)]
    /\ UNCHANGED <<srcDir, encFile, outBase>>

NextSanitize ==
    \/ \E name \in Names \cup SpecExamples : Sanitize(name)
    \/ Resume

SpecSanitize == Init /\ [][NextSanitize]_vars

----------------------------------------------------------------------------
(* Properties *)

IsCall(fn) == call.fn = fn

SeqToSet(list) == {list[i] : i \in 1..Len(list)}

NoDuplicates(list) == \A i, j \in 1..Len(list) : list[i] = list[j] => i = j

\* how often x occurs in list
Count(list, x) == Cardinality({i \in 1..Len(list) : list[i] = x})

\* the (filename, embedding) pairs of two parallel lists
Pairs(filenames, encodings) == [i \in 1..Len(encodings) |-> <<filenames[i], encodings[i]>>]

SameMultiset(s, t) ==
    /\ Len(s) = Len(t)
    /\ \A x \in SeqToSet(s) \cup SeqToSet(t) : Count(s, x) = Count(t, x)

\* C1: find_matching_photos returns exactly one entry per distinct filename
\* that has at least one stored embedding within 0.6 of the query (no
\* duplicate, no filename without a matching embedding), and the empty list
\* when the store is empty or missing or the query is None.
C1_OneEntryPerMatchingFile ==
    IsCall("find_matching_photos") =>
      LET query == call.args.selfie_encoding
          encodings == call.args.all_known_encodings
          filenames == call.args.all_known_filenames
      IN  IF IsNone(query) \/ IsNone(encodings) \/ encodings.value = <<>>
          THEN call.ret = <<>>
          ELSE /\ NoDuplicates(call.ret)
               /\ SeqToSet(call.ret) =
                    {PathJoin(SOURCE_PHOTOS_DIR, filenames.value[k]) :
                       k \in {i \in 1..Len(encodings.value) :
                                SqDistance(encodings.value[i], query.value)
                                   <= TOLERANCE * TOLERANCE}}

\* both faces of d.PNG and the face of a.jpg match the query, one of them at
\* distance exactly 0.6, and two paths are returned
C1_Witness ==
    /\ IsCall("find_matching_photos")
    /\ call.args.selfie_encoding = Some(FaceX)
    /\ ~IsNone(call.args.all_known_filenames)
    /\ Count(call.args.all_known_filenames.value, PhotoD) = 2
    /\ PhotoB \in SeqToSet(call.args.all_known_filenames.value)
    /\ SeqToSet(call.ret) = {PathJoin(SOURCE_PHOTOS_DIR, PhotoA),
                             PathJoin(SOURCE_PHOTOS_DIR, PhotoD)}

ValidInputs(args) ==
    /\ validate_phone_number(args.phone_number)
    /\ validate_email_address(args.email_address)
    /\ args.selfie_pil_image.given

Loadable(file) == ~IsNone(load_known_encodings(file).encodings)

Regenerated(status) ==
    \/ HasLine(status, "Attempting to generate new encodings")
    \/ HasLine(status, "Encoding Generation")

\* C2: a request writes the encodings file only if forceRescan is set or
\* load_known_encodings returned None; a request without forceRescan whose
\* load succeeds (an empty store included) leaves the file as it is and runs
\* no rebuild, whatever the source directory holds by now.
C2_FileWrittenOnlyOnRescanOrFailedLoad ==
    IsCall("process_request_gradio") =>
      /\ encFile # call.before.file =>
           \/ call.args.force_rescan_encodings
           \/ ~Loadable(call.before.file)
      /\ (~call.args.force_rescan_encodings /\ Loadable(call.before.file)) =>
           /\ encFile = call.before.file
           /\ ~Regenerated(call.ret.status)

\* a request without forceRescan is served from a loaded store that does not
\* know d.PNG, which is in the source directory by now
C2_Witness ==
    /\ IsCall("process_request_gradio")
    /\ ValidInputs(call.args)
    /\ ~call.args.force_rescan_encodings
    /\ Loadable(call.before.file)
    /\ PhotoD \in srcDir.files
    /\ PhotoD \notin SeqToSet(load_known_encodings(call.before.file).filenames.value)
    /\ HasLine(call.ret.status, "Selfie processed successfully.")

InputErrors ==
    {"Invalid phone number. Must be exactly 10 digits.",
     "Invalid email format (e.g., user@example.com).",
     "ERROR: Please upload or capture a selfie."}

\* C3: a request that fails a validation (phone not exactly 10 digits,
\* malformed e-mail, no selfie) returns an error message, no preview list
\* and no archive, and leaves the encodings file and the output directory
\* (the user's folder included) exactly as they were.
C3_InvalidInputTouchesNothing ==
    (IsCall("process_request_gradio") /\ ~ValidInputs(call.args)) =>
      /\ Len(call.ret.status) = 1
      /\ call.ret.status[1].text \in InputErrors
      /\ IsNone(call.ret.gallery)
      /\ IsNone(call.ret.zip)
      /\ encFile = call.before.file
      /\ outBase = call.before.out

\* a request with a malformed e-mail from a user who has a folder, an archive
\* and a built encodings file
C3_Witness ==
    /\ IsCall("process_request_gradio")
    /\ validate_phone_number(call.args.phone_number)
    /\ ~validate_email_address(call.args.email_address)
    /\ call.args.phone_number \in DOMAIN call.before.out.folders
    /\ call.before.out.zips # {}
    /\ Loadable(call.before.file)

\* C4: what load_known_encodings reads from the file that
\* generate_and_save_known_encodings has just written is the multiset of
\* (filename, embedding) pairs the build returned, in two lists of equal
\* length; an empty build leaves a file that loads as two empty lists, not
\* as None.
C4_BuildThenLoadRoundTrip ==
    IsCall("generate_and_save_known_encodings") =>
      LET got == load_known_encodings(encFile)
      IN  /\ ~IsNone(got.encodings)
          /\ ~IsNone(got.filenames)
          /\ Len(got.encodings.value) = Len(got.filenames.value)
          /\ Len(call.ret.encodings) = Len(call.ret.filenames)
          /\ SameMultiset(Pairs(got.filenames.value, got.encodings.value),
                          Pairs(call.ret.filenames, call.ret.encodings))
          /\ call.ret.encodings = <<>> =>
               (got.encodings = Some(<<>>) /\ got.filenames = Some(<<>>))

\* a build over a directory with d.PNG (two faces) and a.jpg, and a build
\* over a directory without any face, both loaded back
C4_Witness ==
    /\ IsCall("generate_and_save_known_encodings")
    /\ Len(call.ret.encodings) = 3
    /\ Count(call.ret.filenames, PhotoD) = 2
    /\ load_known_encodings(encFile).filenames = Some(call.ret.filenames)

ImagesOf(listing) == {f \in SeqToSet(listing) : IsImageName(f)}

RECURSIVE FacesIn(_)
FacesIn(files) ==
    IF files = {} THEN 0
    ELSE LET f == CHOOSE g \in files : TRUE
         IN  (IF DetectFaces(f) = Undecodable THEN 0 ELSE Len(DetectFaces(f)))
               + FacesIn(files \ {f})

\* C5 as stated: an image that fails to decode or shows no face is counted
\* as skipped and not as processed; for a.jpg, b.jpg (a face each) and c.jpg
\* (no face) the summary reports 2 embeddings and 1 skipped file.
C5_AsStated ==
    (IsCall("generate_and_save_known_encodings") /\ call.ret.encodings # <<>>) =>
      LET images == ImagesOf(call.args.listing)
          faceless == {f \in images : DetectFaces(f) = Undecodable \/ DetectFaces(f) = <<>>}
      IN  /\ call.ret.msg.skipped = Cardinality(faceless)
          /\ call.ret.msg.images = Cardinality(images \ faceless)
          /\ SeqToSet(call.args.listing) = {PhotoA, PhotoB, PhotoC} =>
               (call.ret.msg.encodings = 2 /\ call.ret.msg.skipped = 1)

\* C5 amended: an image that fails to decode is counted as skipped; an image
\* that decodes is counted as processed whether or not it shows a face, and a
\* faceless one adds no embedding; the build always returns; for a.jpg, b.jpg
\* and c.jpg the summary reports 2 embeddings from 3 images, 0 skipped.
C5_OnlyDecodeFailuresAreSkipped ==
    IsCall("generate_and_save_known_encodings") =>
      LET images == ImagesOf(call.args.listing)
          failed == {f \in images : DetectFaces(f) = Undecodable}
      IN  /\ Len(call.ret.encodings) = FacesIn(images)
          /\ call.ret.encodings # <<>> =>
               /\ call.ret.msg.text = "Encoding Generation Complete"
               /\ call.ret.msg.encodings = FacesIn(images)
               /\ call.ret.msg.skipped = Cardinality(failed)
               /\ call.ret.msg.images = Cardinality(images \ failed)
          /\ SeqToSet(call.args.listing) = {PhotoA, PhotoB, PhotoC} =>
               /\ call.ret.msg.encodings = 2
               /\ call.ret.msg.images = 3
               /\ call.ret.msg.skipped = 0

\* the gallery of the scenario, and one with an undecodable file as well
C5_Witness ==
    /\ IsCall("generate_and_save_known_encodings")
    /\ SeqToSet(call.args.listing) = {PhotoA, PhotoB, PhotoC}
    /\ call.ret.msg.text = "Encoding Generation Complete"

NonEmptyList(list) == ~Falsy(list)

\* C6: a response carries an archive only if at least one matched photo was
\* copied into the user's folder (an archive implies a non-empty preview
\* list; no match or no successful copy means no archive), and copied photos
\* come without an archive only when make_archive raised.
C6_ArchiveIffCopied ==
    IsCall("process_request_gradio") =>
      /\ ~IsNone(call.ret.zip) =>
           /\ NonEmptyList(call.ret.gallery)
           /\ call.ret.zip.value \in outBase.zips
           /\ \A i \in 1..Len(call.ret.gallery.value) :
                Basename(call.ret.gallery.value[i])
                   \in outBase.folders[call.ret.gallery.value[i].dir.name]
      /\ ~NonEmptyList(call.ret.gallery) => IsNone(call.ret.zip)
      /\ HasLine(call.ret.status, "No matching photos found") => IsNone(call.ret.zip)
      /\ (NonEmptyList(call.ret.gallery) /\ IsNone(call.ret.zip)) =>
           HasLine(call.ret.status, "Download Error: Could not create ZIP file")

\* two photos matched, one could not be copied any more, and the other is
\* previewed and archived
C6_Witness ==
    /\ IsCall("process_request_gradio")
    /\ ~IsNone(call.ret.zip)
    /\ Len(call.ret.gallery.value) = 1
    /\ \E i \in 1..Len(call.ret.status) :
         call.ret.status[i] = [text |-> "Match Found", count |-> 2]


\* the files of a folder of the output directory; none if it is not there
FolderFiles(folders, name) == IF name \in DOMAIN folders THEN folders[name] ELSE {}

\* C7: after create_user_folder_and_copy_photos the user's folder holds what
\* one run on an empty output directory would have left (so a second run
\* with the same matches leaves the contents of the first, and a run with
\* other matches leaves no file of the earlier run), and running it again
\* with the same arguments changes nothing.
C7_OrganizeReplacesFolder ==
    IsCall("create_user_folder_and_copy_photos") =>
      LET user == call.args.user_identifier
          photos == call.args.matched_photos
          name == sanitize_foldername(user)
          once == create_user_folder_and_copy_photos(NoFolders, srcDir, user, photos)
          again == create_user_folder_and_copy_photos(outBase.folders, srcDir, user, photos)
      IN  /\ name \in DOMAIN outBase.folders
          /\ outBase.folders[name] = once.folders[name]
          /\ outBase.folders[name] \subseteq {Basename(photos[i]) : i \in 1..Len(photos)}
          /\ outBase.folders[name] = {Basename(call.ret.copied_files_paths[i]) :
                                        i \in 1..Len(call.ret.copied_files_paths)}
          /\ again.folders = outBase.folders

\* a run for a user whose folder held, from an earlier run, a photo that is
\* not among the matches of this run
C7_Witness ==
    /\ IsCall("create_user_folder_and_copy_photos")
    /\ LET name == sanitize_foldername(call.args.user_identifier)
       IN  /\ name \in DOMAIN call.before.out.folders
           /\ call.before.out.folders[name] \ outBase.folders[name] # {}
           /\ outBase.folders[name] # {}

\* C8 as stated: the name returned is made only of alphanumeric characters
\* and single hyphens, or is the placeholder "unknown_user".
C8_AsStated ==
    IsCall("sanitize_foldername") =>
      \/ call.ret = UNKNOWN_FACE_DIR_NAME
      \/ /\ \A i \in 1..Len(call.ret) : call.ret[i] \in Alnum \cup {"-"}
         /\ \A i \in 1..(Len(call.ret) - 1) : ~(call.ret[i] = "-" /\ call.ret[i + 1] = "-")

\* C8 amended: the name returned is made only of word characters
\* (alphanumerics and the underscore, which \w keeps) and single hyphens,
\* with the word characters of the input in their order and nothing else; it
\* is the placeholder "unknown_user" when the input has no word character
\* and no hyphen; "555-123-4567" is unchanged, "  John Doe!! " gives
\* "John-Doe", "!!!" gives the placeholder.
C8_WordCharsAndSingleHyphens ==
    IsCall("sanitize_foldername") =>
      LET name == call.args.name
      IN  /\ IF \E i \in 1..Len(name) : name[i] \in WordChars \cup {"-"}
             THEN /\ call.ret # <<>>
                  /\ \A i \in 1..Len(call.ret) : call.ret[i] \in WordChars \cup {"-"}
                  /\ \A i \in 1..(Len(call.ret) - 1) :
                       ~(call.ret[i] = "-" /\ call.ret[i + 1] = "-")
                  /\ FilterSeq(call.ret, WordChars) = FilterSeq(name, WordChars)
             ELSE call.ret = UNKNOWN_FACE_DIR_NAME
          /\ name = <<"5", "5", "5", "-", "1", "2", "3", "-", "4", "5", "6", "7">> => call.ret = <<"5", "5", "5", "-", "1", "2", "3", "-", "4", "5", "6", "7">>
          /\ name = <<" ", " ", "J", "o", "h", "n", " ", "D", "o", "e", "!", "!", " ">> => call.ret = <<"J", "o", "h", "n", "-", "D", "o", "e">>
          /\ name = <<"!", "!", "!">> => call.ret = UNKNOWN_FACE_DIR_NAME

\* a name with an underscore, which is kept, next to a run that became a hyphen
C8_Witness ==
    /\ IsCall("sanitize_foldername")
    /\ call.args.name = <<"a", " ", "_">>
    /\ call.ret = <<"a", "-", "_">>

\* C9: a request with valid inputs that has to rebuild (forceRescan, or the
\* load returned None) while the source directory is absent or empty returns
\* an error message, no preview and no archive, runs neither the selfie
\* processing nor the matching nor the organizer, and leaves a loadable
\* encodings file as it was.
C9_SourceUnavailableStopsRequest ==
    (/\ IsCall("process_request_gradio")
     /\ ValidInputs(call.args)
     /\ call.args.force_rescan_encodings \/ ~Loadable(call.before.file)
     /\ ~srcDir.exists \/ srcDir.files = {}) =>
      /\ HasLine(call.ret.status,
                 "ERROR: Source photo directory is empty or does not exist")
      /\ IsNone(call.ret.gallery)
      /\ IsNone(call.ret.zip)
      /\ ~HasLine(call.ret.status, "Processing selfie...")
      /\ ~HasLine(call.ret.status, "Searching for your photos using stored encodings...")
      /\ ~HasLine(call.ret.status, "File Copy")
      /\ outBase = call.before.out
      /\ Loadable(call.before.file) => encFile = call.before.file

\* a forced rescan, with a store of three embeddings on file, finds the
\* source directory gone
C9_Witness ==
    /\ IsCall("process_request_gradio")
    /\ ValidInputs(call.args)
    /\ call.args.force_rescan_encodings
    /\ Loadable(call.before.file)
    /\ Len(load_known_encodings(call.before.file).encodings.value) = 3
    /\ ~srcDir.exists

Completed(status) == HasLine(status, "Selfie processed successfully.")

\* C10 as stated: when a request has got past validation, encoding
\* resolution and selfie processing, the user's folder holds exactly the
\* files of the response's preview list, whatever number of matches.
C10_AsStated ==
    (IsCall("process_request_gradio") /\ Completed(call.ret.status)) =>
      FolderFiles(outBase.folders, call.args.phone_number)
         = {Basename(call.ret.gallery.value[i]) : i \in 1..Len(call.ret.gallery.value)}

\* C10 amended: when such a request finds at least one match, the user's
\* folder holds exactly the files of the response's preview list, and no
\* file of an earlier request of that user.
C10_FolderIsPreviewWhenMatched ==
    (/\ IsCall("process_request_gradio")
     /\ Completed(call.ret.status)
     /\ HasLine(call.ret.status, "Match Found")) =>
      /\ call.args.phone_number \in DOMAIN outBase.folders
      /\ \A i \in 1..Len(call.ret.gallery.value) :
           call.ret.gallery.value[i].dir
              = PathJoin(OUTPUT_BASE_DIR, call.args.phone_number)
      /\ outBase.folders[call.args.phone_number]
           = {Basename(call.ret.gallery.value[i]) : i \in 1..Len(call.ret.gallery.value)}

\* a request with a match from a user whose folder held, from an earlier
\* request, a photo that is not in the preview list of this one
C10_Witness ==
    /\ IsCall("process_request_gradio")
    /\ HasLine(call.ret.status, "Match Found")
    /\ call.args.phone_number \in DOMAIN call.before.out.folders
    /\ call.before.out.folders[call.args.phone_number]
          \ outBase.folders[call.args.phone_number] # {}
    /\ outBase.folders[call.args.phone_number] # {}

====
